---- MODULE Spec2Model ----
(***************************************************************************)
(* Model of src/src/unfulfilled_orders/app.py: one run of the script.      *)
(*                                                                         *)
(* Python strings are TLA+ strings (Len, \o and SubSeq act on them as      *)
(* len, + and slicing do).  The non-ASCII characters of the source's       *)
(* literals (bullet, em dash, arrow, backquote) are written as one ASCII   *)
(* character each ("*", "-", ">", "'"), which keeps every len() of the     *)
(* source.                                                                 *)
(* Python's None is the string NoneVal, which no cursor or header equals.  *)
(***************************************************************************)
EXTENDS Integers, Sequences, FiniteSets, TLC

VARIABLES
    now_utc,  \* the instant datetime.now(timezone.utc) returns in this run
    window,   \* module level: lower, upper and search (empty until computed)
    env,      \* os.getenv results for the settings read at import time
    pc,       \* position of the single thread of control
    after,    \* shopify_fetch_all: cursor of the next request
    out,      \* shopify_fetch_all: accumulated order summaries
    pages,    \* history: every page response received, in order
    rows,     \* main: result of shopify_fetch_all
    header,   \* main: header returned by build_lines
    lines,    \* main: lines returned by build_lines
    parts,    \* post_with_chunking: chunk bodies
    idx,      \* post_with_chunking: index of the next chunk to publish
    count,    \* post_with_chunking: count of chunk publishes that succeeded
    msgs,     \* main: return value of post_with_chunking (NoReturn until then)
    exc,      \* the exception that ended the run (NoExc while none)
    log       \* history: every network call and pause, in order

vars == <<now_utc, window, env, pc, after, out, pages, rows, header, lines, parts, idx, count,
          msgs, exc, log>>

-----------------------------------------------------------------------------
(* Bounds of the environment (not of the program).                         *)

MaxPages == 2      \* the upstream API reports hasNextPage = false by then
MaxOrders == 3     \* orders the upstream API holds in the query window

-----------------------------------------------------------------------------
(* Program constants.                                                      *)

MAX_SECTION_CHARS == 2900

NoneVal == "None"
NoReturn == -1
NoExc == [type |-> "none", msg |-> ""]

-----------------------------------------------------------------------------
(* String helpers: what Python's str operations do.                        *)

\* c * n
RECURSIVE Rep(_, _)
Rep(c, n) ==
    IF n = 0 THEN ""
    ELSE IF n = 1 THEN c
    ELSE LET h == Rep(c, n \div 2)
         IN h \o h \o (IF n % 2 = 1 THEN c ELSE "")

\* t in s
Contains(s, t) ==
    \E i \in 1..(Len(s) - Len(t) + 1) : SubSeq(s, i, i + Len(t) - 1) = t

\* "\n".join(ss); the separator is one character
RECURSIVE Join(_)
Join(ss) ==
    IF ss = <<>> THEN ""
    ELSE IF Len(ss) = 1 THEN ss[1]
    ELSE ss[1] \o "\n" \o Join(Tail(ss))

-----------------------------------------------------------------------------
(* Import-time configuration (lines 17-28).                                *)

SHOP_VALUE == "acme-shop.myshopify.com"
HANDLE_VALUE == "acmes"

FullEnv(handle) ==
    [SHOPIFY_SHOP |-> SHOP_VALUE, SHOPIFY_ADMIN_TOKEN |-> "shpat",
     SLACK_BOT_TOKEN |-> "xoxb", SLACK_CHANNEL_ID |-> "C0",
     SHOPIFY_ADMIN_STORE_HANDLE |-> handle]

RequiredNames ==
    {"SHOPIFY_SHOP", "SHOPIFY_ADMIN_TOKEN", "SLACK_BOT_TOKEN", "SLACK_CHANNEL_ID"}

\* the environments a run can start in: everything set (with or without the
\* optional store handle), or one required setting absent
EnvSet ==
    {FullEnv(NoneVal), FullEnv(HANDLE_VALUE)}
    \cup {[FullEnv(NoneVal) EXCEPT ![n] = NoneVal] : n \in RequiredNames}

\* bool(v) of an os.getenv result
Truthy(v) == v # NoneVal /\ v # ""

\* ConfigComplete leaving the channel identifier out of the test
ConfigCompleteThreeNames(e) ==
    \A n \in RequiredNames \ {"SLACK_CHANNEL_ID"} : Truthy(e[n])

\* all([SHOP, TOKEN, SLACK_TOKEN, SLACK_CHANNEL])
ConfigComplete(e) == \A n \in RequiredNames : Truthy(e[n])

ConfigErrorMsg ==
    "Missing required env vars: SHOPIFY_SHOP, SHOPIFY_ADMIN_TOKEN, SLACK_BOT_TOKEN, SLACK_CHANNEL_ID"

-----------------------------------------------------------------------------
(* Window Calculator (lines 32-40): datetime arithmetic and strftime.      *)

\* a datetime: its calendar fields
DateTime(y, mo, d, h, mi, sec, us) ==
    [year |-> y, month |-> mo, day |-> d, hour |-> h, minute |-> mi,
     second |-> sec, microsecond |-> us]

\* days from 1970-01-01 to the date, in the proleptic Gregorian calendar
DaysFromCivil(y, m, d) ==
    LET yy == IF m <= 2 THEN y - 1 ELSE y
        era == yy \div 400
        yoe == yy - era * 400
        mp == IF m > 2 THEN m - 3 ELSE m + 9
        doy == (153 * mp + 2) \div 5 + d - 1
        doe == yoe * 365 + yoe \div 4 - yoe \div 100 + doy
    IN era * 146097 + doe - 719468

\* the date that many days after 1970-01-01
CivilFromDays(days) ==
    LET z == days + 719468
        era == z \div 146097
        doe == z - era * 146097
        yoe == (doe - doe \div 1460 + doe \div 36524 - doe \div 146096) \div 365
        doy == doe - (365 * yoe + yoe \div 4 - yoe \div 100)
        mp == (5 * doy + 2) \div 153
        d == doy - (153 * mp + 2) \div 5 + 1
        m == IF mp < 10 THEN mp + 3 ELSE mp - 9
        y == yoe + era * 400 + (IF m <= 2 THEN 1 ELSE 0)
    IN [year |-> y, month |-> m, day |-> d]

\* dt - timedelta(days=days, seconds=secs), computed on (day, second of the
\* day) as datetime does; microseconds are untouched
MinusDelta(dt, days, secs) ==
    LET sod == dt.hour * 3600 + dt.minute * 60 + dt.second - secs
        borrow == IF sod < 0 THEN (86399 - sod) \div 86400 ELSE 0
        rest == sod + borrow * 86400
        date == CivilFromDays(DaysFromCivil(dt.year, dt.month, dt.day) - days - borrow)
    IN DateTime(date.year, date.month, date.day,
                rest \div 3600, (rest % 3600) \div 60, rest % 60, dt.microsecond)

\* "%02d" and "%04d"
Pad2(n) == IF n < 10 THEN "0" \o ToString(n) ELSE ToString(n)
Pad4(n) ==
    IF n < 10 THEN "000" \o ToString(n)
    ELSE IF n < 100 THEN "00" \o ToString(n)
    ELSE IF n < 1000 THEN "0" \o ToString(n)
    ELSE ToString(n)

\* dt.strftime("%Y-%m-%dT%H:%M:%SZ")
Strftime(dt) ==
    Pad4(dt.year) \o "-" \o Pad2(dt.month) \o "-" \o Pad2(dt.day) \o "T"
        \o Pad2(dt.hour) \o ":" \o Pad2(dt.minute) \o ":" \o Pad2(dt.second) \o "Z"

\* line 33
LowerOf(now) == Strftime(MinusDelta(now, 30, 0))

\* line 34
UpperOf(now) == Strftime(MinusDelta(now, 0, 24 * 3600))

\* SearchString with a closed upper end
SearchStringClosed(lo, up) ==
    "fulfillment_status:unfulfilled AND status:open "
        \o "AND -financial_status:pending "
        \o "AND created_at:>=" \o lo \o " AND created_at:<=" \o up

\* lines 36-40
SearchString(lo, up) ==
    "fulfillment_status:unfulfilled AND status:open "
        \o "AND -financial_status:pending "
        \o "AND created_at:>=" \o lo \o " AND created_at:<" \o up

NoWindow == [lower |-> "", upper |-> "", search |-> ""]

\* lines 32-40
WindowOf(now) ==
    [lower |-> LowerOf(now), upper |-> UpperOf(now),
     search |-> SearchString(LowerOf(now), UpperOf(now))]

\* the instant of the runs of Spec
RunInstant == DateTime(2026, 11, 1, 12, 0, 0, 250000)

\* instants around month ends, leap days, year ends and midnight
NowDates ==
    {<<2024, 3, 30>>, <<2024, 3, 1>>, <<2024, 1, 1>>, <<2024, 12, 31>>,
     <<2025, 3, 1>>, <<2025, 3, 31>>, <<2026, 1, 30>>, <<2026, 11, 1>>,
     <<2000, 3, 30>>, <<2100, 3, 31>>}
NowTimes ==
    {<<0, 0, 0>>, <<0, 0, 10>>, <<10, 20, 30>>, <<12, 0, 0>>, <<23, 0, 0>>,
     <<23, 59, 59>>}
NowSet ==
    {DateTime(d[1], d[2], d[3], t[1], t[2], t[3], us) :
        d \in NowDates, t \in NowTimes, us \in {0, 999999}}

-----------------------------------------------------------------------------
(* The upstream API's answers.                                             *)

Node(num, name, created, fin, ful) ==
    [id |-> "gid://shopify/Order/" \o ToString(num), legacyResourceId |-> num,
     name |-> name, createdAt |-> created,
     displayFulfillmentStatus |-> ful, displayFinancialStatus |-> fin]

\* order nodes whose report lines are 110, 1449, 1450 and 2901 characters long
NodeSet ==
    {Node(1001, "#1001", "2026-10-15T18:30:00Z", "PAID", "UNFULFILLED"),
     Node(1002, "#" \o Rep("2", 1317), "2026-10-05T03:05:00Z", "PAID", "UNFULFILLED"),
     Node(1003, "#" \o Rep("3", 1318), "2026-10-15T18:30:00Z", "PAID", "UNFULFILLED"),
     Node(1004, "#" \o Rep("4", 2769), "2026-10-05T03:05:00Z", "PAID", "UNFULFILLED")}

\* the opaque cursor that ends the k-th page
CursorAt(k) == "c" \o ToString(k)

RECURSIVE SeqsUpTo(_, _)
SeqsUpTo(S, n) ==
    IF n = 0 THEN {<<>>}
    ELSE LET shorter == SeqsUpTo(S, n - 1)
         IN shorter \cup {Append(s, x) : s \in {t \in shorter : Len(t) = n - 1}, x \in S}

\* the response bodies r.json() of the k-th query request when it passed
\* raise_for_status and carries no "errors", the API having n orders left to
\* return; the API ends by page MaxPages; a page without edges has a null
\* endCursor, whatever it says of further pages
QueryPages(k, n) ==
    {[edges |-> e, hasNextPage |-> more,
      endCursor |-> IF e = <<>> THEN NoneVal ELSE CursorAt(k)] :
        e \in SeqsUpTo(NodeSet, n),
        more \in (IF k < MaxPages THEN {TRUE, FALSE} ELSE {FALSE})}

-----------------------------------------------------------------------------
(* shopify_fetch_all (lines 61-92).                                        *)

\* the dict appended to out for one edge (lines 80-87)
Summary(n) ==
    [name |-> n.name, createdAt |-> n.createdAt,
     fulfillment |-> n.displayFulfillmentStatus,
     financial |-> n.displayFinancialStatus,
     legacyId |-> ToString(n.legacyResourceId), gid |-> n.id]

\* the for loop over orders["edges"] (lines 78-87)
RECURSIVE AppendEdges(_, _)
AppendEdges(acc, edges) ==
    IF edges = <<>> THEN acc
    ELSE AppendEdges(Append(acc, Summary(Head(edges))), Tail(edges))

\* NextAfter never advancing the cursor
NextAfterStale(page) == NoneVal

\* after = orders["pageInfo"]["endCursor"] (line 91)
NextAfter(page) == page.endCursor

-----------------------------------------------------------------------------
(* Report Formatter (lines 94-113).                                        *)

\* fmt_dt_iso_to_ct on the creation times of NodeSet: UTC to America/Chicago
\* (CDT, UTC-5, on both dates), rendered "%b %d, %Y %I:%M %p %Z"
fmt_dt_iso_to_ct(iso_ts) ==
    IF iso_ts = "2026-10-15T18:30:00Z" THEN "Oct 15, 2026 01:30 PM CDT"
    ELSE IF iso_ts = "2026-10-05T03:05:00Z" THEN "Oct 04, 2026 10:05 PM CDT"
    ELSE "?"

order_url(e, legacy_id) ==
    IF Truthy(e.SHOPIFY_ADMIN_STORE_HANDLE)
    THEN "https://admin.shopify.com/store/" \o e.SHOPIFY_ADMIN_STORE_HANDLE
             \o "/orders/" \o legacy_id
    ELSE "https://" \o e.SHOPIFY_SHOP \o "/admin/orders/" \o legacy_id

EMPTY_HEADER == ":white_check_mark: No unfulfilled orders in the 30d>24h window."
REPORT_HEADER == "*Unfulfilled orders > 24hrs (within last 30 days) - Please Review*"

\* the f-string of line 112
FormatLine(e, r) ==
    "* <" \o order_url(e, r.legacyId) \o "|" \o r.name \o "> - "
        \o fmt_dt_iso_to_ct(r.createdAt)
        \o " - Financial: '" \o r.financial
        \o "' - Fulfillment: '" \o r.fulfillment \o "'"

\* FormatLines building the lines in reverse order
RECURSIVE FormatLinesReversed(_, _)
FormatLinesReversed(e, rs) ==
    IF rs = <<>> THEN <<>>
    ELSE FormatLinesReversed(e, Tail(rs)) \o <<FormatLine(e, Head(rs))>>

RECURSIVE FormatLines(_, _)
FormatLines(e, rs) ==
    IF rs = <<>> THEN <<>>
    ELSE <<FormatLine(e, Head(rs))>> \o FormatLines(e, Tail(rs))

\* build_lines returns (header, lines)
build_lines(e, rs) ==
    IF rs = <<>>
    THEN [header |-> EMPTY_HEADER, lines |-> <<>>]
    ELSE [header |-> REPORT_HEADER, lines |-> FormatLines(e, rs)]


-----------------------------------------------------------------------------
(* Exceptions.  requests' HTTPError is not a RuntimeError.                 *)

HTTPError == [type |-> "HTTPError", msg |-> "HTTP status error"]
RuntimeError(m) == [type |-> "RuntimeError", msg |-> m]

-----------------------------------------------------------------------------
(* The messaging platform's answers to chat.postMessage.                   *)

SlackResp(ok, error, messages) == [ok |-> ok, error |-> error, messages |-> messages]

\* r.json() of a publish call that passed raise_for_status: acknowledged, or
\* refused with an error token and optionally with explanatory messages
SlackRespSet ==
    {SlackResp(TRUE, "", ""),
     SlackResp(FALSE, "msg_too_long", ""),
     SlackResp(FALSE, "invalid_blocks", ""),
     SlackResp(FALSE, "channel_not_found", ""),
     SlackResp(FALSE, "invalid_arguments", "[ERROR] invalid_blocks in payload")}

\* what one publish call meets: a non-success transport status or a response
PublishOutcomes ==
    {[http_ok |-> FALSE, resp |-> SlackResp(FALSE, "", "")]}
    \cup {[http_ok |-> TRUE, resp |-> r] : r \in SlackRespSet}

\* str(resp) of the response dict
Repr(resp) ==
    "{'ok': " \o (IF resp.ok THEN "True" ELSE "False")
        \o (IF resp.error # "" THEN ", 'error': '" \o resp.error \o "'" ELSE "")
        \o (IF resp.messages # ""
            THEN ", 'response_metadata': {'messages': ['" \o resp.messages \o "']}"
            ELSE "")
        \o "}"

-----------------------------------------------------------------------------
(* Message Chunker/Publisher (lines 116-177).                              *)

\* blocks_from_chunk emitting the header block without testing the header
blocks_from_chunkAlwaysHeader(header_or_none, body_text) ==
    <<header_or_none, body_text>>

\* blocks_from_chunk: the mrkdwn texts of the section blocks
blocks_from_chunk(header_or_none, body_text) ==
    (IF Truthy(header_or_none) THEN <<header_or_none>> ELSE <<>>) \o <<body_text>>

\* post_blocks: the exception it raises on this outcome, NoExc if it returns
post_blocks(outcome) ==
    IF ~outcome.http_ok THEN HTTPError
    ELSE IF ~outcome.resp.ok THEN RuntimeError("Slack error: " \o Repr(outcome.resp))
    ELSE NoExc

\* FallsThrough recognising msg_too_long only
FallsThroughOneToken(e) ==
    /\ e.type = "RuntimeError"
    /\ Contains(e.msg, "msg_too_long")

\* the except clause of lines 154-156: TRUE when the exception is swallowed
\* and control falls through to chunking
FallsThrough(e) ==
    /\ e.type = "RuntimeError"
    /\ ~(~Contains(e.msg, "msg_too_long") /\ ~Contains(e.msg, "invalid_blocks"))

\* ClosesChunk without the test that the current chunk holds a line
ClosesChunkEvenIfEmpty(cur, cur_len, add_len) ==
    cur_len + add_len > MAX_SECTION_CHARS

\* line 162: close the current chunk before this line
ClosesChunk(cur, cur_len, add_len) ==
    cur_len + add_len > MAX_SECTION_CHARS /\ cur # <<>>

\* ChunkStep losing the line that closes a chunk
ChunkStepDropsLine(st, line) ==
    LET add_len == Len(line) + 1
    IN IF ClosesChunk(st.cur, st.cur_len, add_len)
       THEN [parts |-> Append(st.parts, Join(st.cur)),
             cur |-> <<>>, cur_len |-> 0]
       ELSE [parts |-> st.parts,
             cur |-> Append(st.cur, line), cur_len |-> st.cur_len + add_len]

\* one iteration of the for loop of lines 160-167
ChunkStep(st, line) ==
    LET add_len == Len(line) + 1
    IN IF ClosesChunk(st.cur, st.cur_len, add_len)
       THEN [parts |-> Append(st.parts, Join(st.cur)),
             cur |-> <<line>>, cur_len |-> Len(line) + 1]
       ELSE [parts |-> st.parts,
             cur |-> Append(st.cur, line), cur_len |-> st.cur_len + add_len]

RECURSIVE ChunkLoop(_, _)
ChunkLoop(st, ls) ==
    IF ls = <<>> THEN st ELSE ChunkLoop(ChunkStep(st, Head(ls)), Tail(ls))

\* lines 158-169: the chunk bodies of the lines
MakeParts(ls) ==
    LET st == ChunkLoop([parts |-> <<>>, cur |-> <<>>, cur_len |-> 0], ls)
    IN IF st.cur # <<>> THEN Append(st.parts, Join(st.cur)) ELSE st.parts

\* line 173; i is the 0-based index of the chunk
ChunkHeader(h, i) ==
    IF i = 0 THEN h ELSE h \o " (cont. " \o ToString(i) \o ")"

-----------------------------------------------------------------------------
(* History of the run's network calls and pauses.                          *)

\* outcome is what a publish call met; NoOutcome on the other events
NoOutcome == [http_ok |-> TRUE, resp |-> SlackResp(TRUE, "", "")]

QueryEvent(cursor, ok) ==
    [kind |-> "query", after |-> cursor, text |-> "", blocks |-> <<>>,
     ok |-> ok, outcome |-> NoOutcome]
PostEvent(blocks, text, o, ok) ==
    [kind |-> "post", after |-> "", text |-> text, blocks |-> blocks,
     ok |-> ok, outcome |-> o]
SleepEvent ==
    [kind |-> "sleep", after |-> "", text |-> "", blocks |-> <<>>,
     ok |-> TRUE, outcome |-> NoOutcome]

-----------------------------------------------------------------------------
(* The run.                                                                *)

\* everything but the clock, as it is when the process starts
InitRun ==
    /\ window = NoWindow
    /\ pc = "import"
    /\ after = NoneVal
    /\ out = <<>>
    /\ pages = <<>>
    /\ rows = <<>>
    /\ header = ""
    /\ lines = <<>>
    /\ parts = <<>>
    /\ idx = 0
    /\ count = 0
    /\ msgs = NoReturn
    /\ exc = NoExc
    /\ log = <<>>

Init ==
    /\ now_utc = RunInstant
    /\ env \in EnvSet
    /\ InitRun

\* an uncaught exception ends the process
Raise(e) ==
    /\ exc' = e
    /\ pc' = "failed"

\* module level (lines 17-40), then main enters shopify_fetch_all (lines 67-68)
Startup ==
    /\ pc = "import"
    /\ IF ConfigComplete(env)
       THEN /\ window' = WindowOf(now_utc)
            /\ pc' = "fetching"
            /\ exc' = exc
       ELSE /\ Raise(RuntimeError(ConfigErrorMsg))
            /\ window' = window
    /\ after' = NoneVal
    /\ out' = <<>>
    /\ UNCHANGED <<now_utc, env, pages, rows, header, lines, parts, idx, count, msgs, log>>

\* one iteration of the while loop of shopify_fetch_all whose request meets a
\* non-success transport status (line 72)
FetchHttpError ==
    /\ pc = "fetching"
    /\ log' = Append(log, QueryEvent(after, FALSE))
    /\ Raise(HTTPError)
    /\ UNCHANGED <<now_utc, window, env, after, out, pages, rows, header, lines, parts, idx, count, msgs>>

\* FetchErrorsPayload leaving the loop with what was accumulated
FetchErrorsPayloadReturnsPartial ==
    /\ pc = "fetching"
    /\ log' = Append(log, QueryEvent(after, FALSE))
    /\ rows' = out
    /\ pc' = "formatting"
    /\ UNCHANGED <<now_utc, window, env, after, out, pages, header, lines, parts, idx, count, msgs, exc>>

\* ... whose response carries an "errors" payload (lines 74-75)
FetchErrorsPayload ==
    /\ pc = "fetching"
    /\ log' = Append(log, QueryEvent(after, FALSE))
    /\ Raise(RuntimeError("Shopify GraphQL errors: [{'message': 'Throttled'}]"))
    /\ UNCHANGED <<now_utc, window, env, after, out, pages, rows, header, lines, parts, idx, count, msgs>>

\* ... whose response is a page of orders (lines 77-91); after the last page
\* shopify_fetch_all returns out to main (lines 92, 180)
FetchPage ==
    /\ pc = "fetching"
    /\ \E page \in QueryPages(Len(pages) + 1, MaxOrders - Len(out)) :
        /\ log' = Append(log, QueryEvent(after, TRUE))
        /\ pages' = Append(pages, page)
        /\ out' = AppendEdges(out, page.edges)
        /\ IF ~page.hasNextPage
           THEN /\ rows' = out'
                /\ pc' = "formatting"
                /\ after' = after
           ELSE /\ after' = NextAfter(page)
                /\ UNCHANGED <<rows, pc>>
    /\ UNCHANGED <<now_utc, window, env, header, lines, parts, idx, count, msgs, exc>>

\* main, line 181
Format ==
    /\ pc = "formatting"
    /\ header' = build_lines(env, rows).header
    /\ lines' = build_lines(env, rows).lines
    /\ pc' = "publishing"
    /\ UNCHANGED <<now_utc, window, env, after, out, pages, rows, parts, idx, count, msgs, exc, log>>

\* post_with_chunking returns n to main, which prints the summary (lines 182-184)
Return(n) ==
    /\ msgs' = n
    /\ pc' = "done"
    /\ exc' = exc

\* post_with_chunking, lines 145-147: no lines
PublishEmpty ==
    /\ pc = "publishing"
    /\ lines = <<>>
    /\ \E o \in PublishOutcomes :
        LET e == post_blocks(o)
        IN /\ log' = Append(log, PostEvent(blocks_from_chunk(NoneVal, header), header, o, e = NoExc))
           /\ IF e = NoExc
              THEN Return(1)
              ELSE Raise(e) /\ msgs' = msgs
    /\ UNCHANGED <<now_utc, window, env, after, out, pages, rows, header, lines, parts, idx, count>>

\* PublishSingle going on to the chunked delivery after a successful publish
PublishSingleThenChunks ==
    /\ pc = "publishing"
    /\ lines # <<>>
    /\ Len(Join(lines)) <= MAX_SECTION_CHARS
    /\ \E o \in PublishOutcomes :
        LET e == post_blocks(o)
        IN /\ log' = Append(log, PostEvent(blocks_from_chunk(header, Join(lines)), header, o, e = NoExc))
           /\ IF e = NoExc \/ FallsThrough(e)
              THEN /\ parts' = MakeParts(lines)
                   /\ idx' = 0
                   /\ count' = 0
                   /\ pc' = "chunks"
                   /\ UNCHANGED <<msgs, exc>>
              ELSE Raise(e) /\ UNCHANGED <<msgs, parts, idx, count>>
    /\ UNCHANGED <<now_utc, window, env, after, out, pages, rows, header, lines>>

\* post_with_chunking, lines 149-169 when the body fits: the single-shot
\* attempt and, when its failure is swallowed, the chunking loop
PublishSingle ==
    /\ pc = "publishing"
    /\ lines # <<>>
    /\ Len(Join(lines)) <= MAX_SECTION_CHARS
    /\ \E o \in PublishOutcomes :
        LET e == post_blocks(o)
        IN /\ log' = Append(log, PostEvent(blocks_from_chunk(header, Join(lines)), header, o, e = NoExc))
           /\ IF e = NoExc
              THEN Return(1) /\ UNCHANGED <<parts, idx, count>>
              ELSE IF FallsThrough(e)
              THEN /\ parts' = MakeParts(lines)
                   /\ idx' = 0
                   /\ count' = 0
                   /\ pc' = "chunks"
                   /\ UNCHANGED <<msgs, exc>>
              ELSE Raise(e) /\ UNCHANGED <<msgs, parts, idx, count>>
    /\ UNCHANGED <<now_utc, window, env, after, out, pages, rows, header, lines>>

\* post_with_chunking, lines 149-171 when the body is too long: no single-shot
\* attempt, straight to the chunking loop
SplitOversize ==
    /\ pc = "publishing"
    /\ lines # <<>>
    /\ ~(Len(Join(lines)) <= MAX_SECTION_CHARS)
    /\ parts' = MakeParts(lines)
    /\ idx' = 0
    /\ count' = 0
    /\ pc' = "chunks"
    /\ UNCHANGED <<now_utc, window, env, after, out, pages, rows, header, lines, msgs, exc, log>>

\* PublishChunk trying the same chunk again after a failed publish
PublishChunkRetries ==
    /\ pc = "chunks"
    /\ idx < Len(parts)
    /\ \E o \in PublishOutcomes :
        LET e == post_blocks(o)
            hdr == ChunkHeader(header, idx)
            posted == PostEvent(blocks_from_chunk(hdr, parts[idx + 1]), hdr, o, e = NoExc)
        IN /\ log' = log \o <<posted, SleepEvent>>
           /\ count' = IF e = NoExc THEN count + 1 ELSE count
           /\ idx' = IF e = NoExc THEN idx + 1 ELSE idx
           /\ UNCHANGED <<pc, exc>>
    /\ UNCHANGED <<now_utc, window, env, after, out, pages, rows, header, lines, parts, msgs>>

\* PublishChunk going on to the next chunk after a failed publish
PublishChunkIgnoresFailure ==
    /\ pc = "chunks"
    /\ idx < Len(parts)
    /\ \E o \in PublishOutcomes :
        LET e == post_blocks(o)
            hdr == ChunkHeader(header, idx)
            posted == PostEvent(blocks_from_chunk(hdr, parts[idx + 1]), hdr, o, e = NoExc)
        IN /\ log' = log \o <<posted, SleepEvent>>
           /\ count' = IF e = NoExc THEN count + 1 ELSE count
           /\ idx' = idx + 1
           /\ UNCHANGED <<pc, exc>>
    /\ UNCHANGED <<now_utc, window, env, after, out, pages, rows, header, lines, parts, msgs>>

\* one iteration of the for loop of lines 172-176
PublishChunk ==
    /\ pc = "chunks"
    /\ idx < Len(parts)
    /\ \E o \in PublishOutcomes :
        LET e == post_blocks(o)
            hdr == ChunkHeader(header, idx)
            posted == PostEvent(blocks_from_chunk(hdr, parts[idx + 1]), hdr, o, e = NoExc)
        IN IF e = NoExc
           THEN /\ log' = log \o <<posted, SleepEvent>>
                /\ count' = count + 1
                /\ idx' = idx + 1
                /\ UNCHANGED <<pc, exc>>
           ELSE /\ log' = Append(log, posted)
                /\ Raise(e)
                /\ UNCHANGED <<count, idx>>
    /\ UNCHANGED <<now_utc, window, env, after, out, pages, rows, header, lines, parts, msgs>>

\* ReturnCount leaving the loop before the last chunk
ReturnCountEarly ==
    /\ pc = "chunks"
    /\ idx >= Len(parts) - 1
    /\ Return(count)
    /\ UNCHANGED <<now_utc, window, env, after, out, pages, rows, header, lines, parts, idx, count, log>>

\* ReturnCount reporting the publish attempts instead of the successes
ReturnCountOfAttempts ==
    /\ pc = "chunks"
    /\ idx = Len(parts)
    /\ Return(IF Len(Join(lines)) <= MAX_SECTION_CHARS THEN count + 1 ELSE count)
    /\ UNCHANGED <<now_utc, window, env, after, out, pages, rows, header, lines, parts, idx, count, log>>

\* line 177, then main's lines 183-184
ReturnCount ==
    /\ pc = "chunks"
    /\ idx = Len(parts)
    /\ Return(count)
    /\ UNCHANGED <<now_utc, window, env, after, out, pages, rows, header, lines, parts, idx, count, log>>

Next ==
    \/ Startup
    \/ FetchHttpError
    \/ FetchErrorsPayload
    \/ FetchPage
    \/ Format
    \/ PublishEmpty
    \/ PublishSingle
    \/ SplitOversize
    \/ PublishChunk
    \/ ReturnCount

Spec == Init /\ [][Next]_vars

\* the module-level code alone, run at the instants of NowSet
WindowInit ==
    /\ now_utc \in NowSet
    /\ env = FullEnv(NoneVal)
    /\ InitRun

WindowSpec == WindowInit /\ [][Startup]_vars

\* the single thread always takes its next step: every network call returns
\* (an answer, an error status or the timeout of lines 71 and 133)
FairSpec == Spec /\ WF_vars(Next)


-----------------------------------------------------------------------------
(* Vocabulary of the properties.                                           *)

\* the events of the log of one kind, in order
RECURSIVE EventsOf(_, _)
EventsOf(l, kind) ==
    IF l = <<>> THEN <<>>
    ELSE (IF Head(l).kind = kind THEN <<Head(l)>> ELSE <<>>) \o EventsOf(Tail(l), kind)

Posts == EventsOf(log, "post")
Queries == EventsOf(log, "query")

\* the run made the single-shot attempt: it is then the first post of the log
SingleShotMade ==
    lines # <<>> /\ Len(Join(lines)) <= MAX_SECTION_CHARS /\ Posts # <<>>

\* the posts of the chunked delivery
ChunkPosts ==
    IF parts = <<>> THEN <<>>
    ELSE IF SingleShotMade THEN Tail(Posts) ELSE Posts

\* the body handed to a publish call: the text of the last section block
BodyOf(ev) == ev.blocks[Len(ev.blocks)]

\* the elements of a set of numbers in increasing order
RECURSIVE Sorted(_)
Sorted(S) ==
    IF S = {} THEN <<>>
    ELSE LET m == CHOOSE x \in S : \A y \in S : x <= y
         IN <<m>> \o Sorted(S \ {m})

\* the chunk bodies obtained by cutting ls after the positions of cuts
Cut(ls, cuts) ==
    LET b == <<0>> \o Sorted(cuts) \o <<Len(ls)>>
    IN [i \in 1..(Len(b) - 1) |-> Join(SubSeq(ls, b[i] + 1, b[i + 1]))]

-----------------------------------------------------------------------------
(* C1: the chunking loop cuts the sequence of lines at line boundaries:    *)
(* the chunks are the joins of consecutive non-empty groups of whole       *)
(* lines that taken in order are all the lines, each line in exactly one   *)
(* group, and the chunks joined in order are the lines joined in order.    *)

ChunksPartitionLines ==
    pc = "chunks" =>
        /\ \E cuts \in SUBSET (1..(Len(lines) - 1)) : parts = Cut(lines, cuts)
        /\ Join(parts) = Join(lines)

ChunksPartitionLinesWitness ==
    pc = "chunks" /\ Len(lines) >= 3 /\ Len(parts) = 2


-----------------------------------------------------------------------------
(* C2: every chunk handed to a publish call has a body of at most          *)
(* MAX_SECTION_CHARS characters, whatever the lengths of the lines.        *)

ChunkBodiesWithinLimit ==
    \A k \in 1..Len(ChunkPosts) : Len(BodyOf(ChunkPosts[k])) <= MAX_SECTION_CHARS

-----------------------------------------------------------------------------
(* C3: a single-shot attempt refused with the error token msg_too_long or  *)
(* invalid_blocks raises nothing out of post_with_chunking: the same step  *)
(* goes on to the chunked delivery of all the lines, from chunk 0.         *)

KnownTokens == {"msg_too_long", "invalid_blocks"}

\* the publish call met a logical failure with one of the known tokens
RefusedWithKnownToken(ev) ==
    /\ ev.kind = "post"
    /\ ev.outcome.http_ok
    /\ ~ev.outcome.resp.ok
    /\ ev.outcome.resp.error \in KnownTokens

LastEvent == log[Len(log)]

\* this step is the single-shot attempt and it failed
SingleShotFails ==
    /\ pc = "publishing"
    /\ lines # <<>>
    /\ Len(log') = Len(log) + 1
    /\ ~LastEvent'.ok

KnownTokenFallsBackToChunks ==
    [][(SingleShotFails /\ RefusedWithKnownToken(LastEvent'))
         => /\ pc' = "chunks"
            /\ exc' = NoExc
            /\ idx' = 0
            /\ count' = 0
            /\ msgs' = NoReturn
            /\ Join(parts') = Join(lines)]_vars

KnownTokenFallsBackToChunksWitness ==
    /\ pc = "chunks"
    /\ idx = 0
    /\ Len(Posts) = 1
    /\ RefusedWithKnownToken(Posts[1])
    /\ Posts[1].outcome.resp.error = "invalid_blocks"
    /\ Len(lines) >= 2

-----------------------------------------------------------------------------
(* C4: a single-shot attempt that fails in any other way (a non-success    *)
(* transport status, or a refusal whose error token is not a known one,    *)
(* whatever else the response holds) ends the run with that error at       *)
(* once, and no publish follows it.                                        *)

OtherFailurePropagates ==
    [][(SingleShotFails /\ ~RefusedWithKnownToken(LastEvent'))
         => /\ pc' = "failed"
            /\ exc' # NoExc
            /\ parts' = <<>>]_vars

-----------------------------------------------------------------------------
(* C5: once a query request has met a non-success transport status or an   *)
(* "errors" payload, the run has failed on that request: nothing was       *)
(* returned to main (no partial result), and no message is published.      *)

FailedQuery == \E i \in 1..Len(log) : log[i].kind = "query" /\ ~log[i].ok

QueryFailureAbortsRun ==
    FailedQuery =>
        /\ pc = "failed"
        /\ exc # NoExc
        /\ LastEvent.kind = "query" /\ ~LastEvent.ok
        /\ rows = <<>> /\ lines = <<>> /\ header = ""
        /\ Posts = <<>>
        /\ msgs = NoReturn

\* a later page failed after orders had been accumulated
QueryFailureAbortsRunWitness ==
    /\ FailedQuery
    /\ Len(Queries) >= 2
    /\ out # <<>>
    /\ exc.type = "RuntimeError"


-----------------------------------------------------------------------------
(* C6: the chunked delivery publishes chunk 0, 1, 2, ... in that order,    *)
(* each with its own header; only the latest publish can have failed, and  *)
(* a failed one has ended the run, so the published chunks are always a    *)
(* prefix of the chunks and no chunk follows a failed one.                 *)

ChunksPublishedAsPrefix ==
    parts # <<>> =>
        LET posted == ChunkPosts
            n == Len(posted)
        IN /\ n <= Len(parts)
           /\ \A k \in 1..n :
               LET ev == posted[k]
               IN /\ ev.blocks = <<ChunkHeader(header, k - 1), parts[k]>>
                  /\ k < n => ev.ok
                  /\ ~ev.ok => pc = "failed" /\ exc # NoExc /\ msgs = NoReturn
           /\ count = Cardinality({k \in 1..n : posted[k].ok})
           /\ pc = "chunks" => idx = n

\* chunk 1 of at least three failed after chunk 0 was published
ChunksPublishedAsPrefixWitness ==
    /\ pc = "failed"
    /\ Len(parts) >= 3
    /\ Len(ChunkPosts) = 2
    /\ ChunkPosts[1].ok
    /\ ~ChunkPosts[2].ok

-----------------------------------------------------------------------------
(* C7: the pause separates every two successive publish calls and occurs   *)
(* nowhere else: none before the first publish call, none after the last   *)
(* one of a finished run.                                                  *)

PauseBetween(i, j) == \E k \in (i + 1)..(j - 1) : log[k].kind = "sleep"

PauseOnlyBetweenPublishes ==
    /\ \A i \in 1..Len(log) : \A j \in (i + 1)..Len(log) :
        (log[i].kind = "post" /\ log[j].kind = "post") => PauseBetween(i, j)
    /\ \A k \in 1..Len(log) :
        log[k].kind = "sleep" =>
            /\ \E i \in 1..(k - 1) : log[i].kind = "post"
            /\ pc = "done" => \E j \in (k + 1)..Len(log) : log[j].kind = "post"

-----------------------------------------------------------------------------
(* C8: nothing is retried: a message whose publish failed is never sent    *)
(* again with the same header and body, and no query request follows a     *)
(* failed one.                                                             *)

NoRequestRetried ==
    \A i \in 1..Len(log) : \A j \in (i + 1)..Len(log) :
        /\ (log[i].kind = "post" /\ ~log[i].ok /\ log[j].kind = "post")
              => log[j].blocks # log[i].blocks
        /\ (log[i].kind = "query" /\ ~log[i].ok) => log[j].kind # "query"

-----------------------------------------------------------------------------
(* C9: the first query request carries no cursor and each later one the    *)
(* endCursor of the response before it; requests go on exactly while the   *)
(* responses report hasNextPage; what shopify_fetch_all returns is the     *)
(* orders of all the pages, page after page, each page in its own order.   *)

\* number of edges in the pages before page p
RECURSIVE Offset(_)
Offset(p) == IF p = 1 THEN 0 ELSE Offset(p - 1) + Len(pages[p - 1].edges)

Fetched == pc \in {"formatting", "publishing", "chunks", "done"}

FetchFollowsCursorsAndKeepsOrder ==
    /\ \A k \in 1..Len(Queries) :
        Queries[k].after = IF k = 1 THEN NoneVal ELSE pages[k - 1].endCursor
    /\ \A k \in 1..Len(pages) : Queries[k].ok
    /\ \A k \in 1..(Len(pages) - 1) : pages[k].hasNextPage
    /\ pc = "fetching" => Len(Queries) = Len(pages)
                          /\ \A k \in 1..Len(pages) : pages[k].hasNextPage
    /\ Fetched =>
        /\ Len(Queries) = Len(pages)
        /\ ~pages[Len(pages)].hasNextPage
        /\ Len(rows) = Offset(Len(pages) + 1)
        /\ \A p \in 1..Len(pages) : \A j \in 1..Len(pages[p].edges) :
            rows[Offset(p) + j] = Summary(pages[p].edges[j])

FetchFollowsCursorsAndKeepsOrderWitness ==
    /\ pc = "formatting"
    /\ Len(pages) >= 2
    /\ Len(rows) >= 3
    /\ rows[1] # rows[2]

-----------------------------------------------------------------------------
(* C10: when the joined lines are longer than MAX_SECTION_CHARS, a run     *)
(* that succeeds has published N > 1 messages, the first under the plain   *)
(* header and the k-th after it under the header followed by " (cont. k)". *)

\* str(k) for the continuation indices of the model
Digits(k) == <<"0", "1", "2", "3", "4", "5", "6", "7", "8", "9">>[k + 1]

LongReportSentInSeveralMessages ==
    (pc = "done" /\ lines # <<>> /\ Len(Join(lines)) > MAX_SECTION_CHARS) =>
        /\ Len(Posts) > 1
        /\ msgs = Len(Posts)
        /\ \A k \in 1..Len(Posts) : Posts[k].ok
        /\ Posts[1].blocks[1] = header
        /\ \A k \in 1..(Len(Posts) - 1) :
            Posts[k + 1].blocks[1] = header \o " (cont. " \o Digits(k) \o ")"


-----------------------------------------------------------------------------
(* C11: when the joined lines fit MAX_SECTION_CHARS and the single publish *)
(* is acknowledged, the run is over with exactly one message published,    *)
(* made of the header and the whole body, and post_with_chunking           *)
(* returned 1.                                                             *)

SingleShotSucceeded == SingleShotMade /\ Posts[1].ok

FittingReportSentOnce ==
    SingleShotSucceeded =>
        /\ pc = "done"
        /\ Len(Posts) = 1
        /\ Posts[1].blocks = <<header, Join(lines)>>
        /\ Len(Posts[1].blocks[2]) <= MAX_SECTION_CHARS
        /\ parts = <<>>
        /\ msgs = 1

FittingReportSentOnceWitness ==
    /\ SingleShotSucceeded
    /\ Len(lines) = 2
    /\ Len(Join(lines)) = MAX_SECTION_CHARS

-----------------------------------------------------------------------------
(* C12: when the query returned no order, the run makes exactly one        *)
(* publish call; its message is the "no unfulfilled orders" header alone,  *)
(* with no body line, and once it is acknowledged one message sent is      *)
(* reported.                                                               *)

\* the upstream API answered to the end and held no order
NoOrders ==
    /\ pages # <<>>
    /\ ~pages[Len(pages)].hasNextPage
    /\ \A p \in 1..Len(pages) : pages[p].edges = <<>>

NoOrdersHeaderOnly ==
    NoOrders =>
        /\ Len(Posts) <= 1
        /\ pc \in {"done", "failed"} => Len(Posts) = 1
        /\ \A k \in 1..Len(Posts) :
            /\ Posts[k].blocks = <<":white_check_mark: No unfulfilled orders in the 30d>24h window.">>
            /\ Posts[k].ok => pc = "done" /\ msgs = 1
            /\ ~Posts[k].ok => pc = "failed" /\ msgs = NoReturn
        /\ pc = "done" => msgs = 1

NoOrdersHeaderOnlyWitness ==
    /\ NoOrders
    /\ pc = "done"
    /\ Len(pages) = 2
    /\ Len(Posts) = 1

-----------------------------------------------------------------------------
(* C13: whenever post_with_chunking has returned, its return value, which  *)
(* main reports, is the number of publish calls that succeeded in the run; *)
(* a failed single-shot attempt is not counted.                            *)

Succeeded == {k \in 1..Len(Posts) : Posts[k].ok}

ReturnCountsSuccessfulPublishes ==
    pc = "done" => msgs = Cardinality(Succeeded)

ReturnCountsSuccessfulPublishesWitness ==
    /\ pc = "done"
    /\ SingleShotMade
    /\ ~Posts[1].ok
    /\ Len(Posts) >= 3
    /\ msgs = Len(Posts) - 1

-----------------------------------------------------------------------------
(* C14: when one of the four required settings is missing, the process     *)
(* ends with the configuration error and no network call (query or         *)
(* publish) is ever made.                                                  *)

SettingMissing ==
    \E n \in {"SHOPIFY_SHOP", "SHOPIFY_ADMIN_TOKEN", "SLACK_BOT_TOKEN", "SLACK_CHANNEL_ID"} :
        env[n] = NoneVal

MissingSettingAbortsBeforeNetwork ==
    SettingMissing =>
        /\ log = <<>>
        /\ pc \in {"import", "failed"}
        /\ pc = "failed" => exc.type = "RuntimeError"
                            /\ SubSeq(exc.msg, 1, 26) = "Missing required env vars:"
        /\ msgs = NoReturn

MissingSettingAbortsBeforeNetworkWitness ==
    /\ pc = "failed"
    /\ env.SLACK_CHANNEL_ID = NoneVal
    /\ log = <<>>


-----------------------------------------------------------------------------
(* C15: lower is now minus 30 days and upper is now minus 24 hours, both   *)
(* taken from the one instant now_utc and written to the second, so that   *)
(* lower < upper and upper - lower = 29 days; the search string selects    *)
(* created_at >= lower and created_at < upper, the half-open range.        *)

IsLeap(y) == y % 4 = 0 /\ (y % 100 # 0 \/ y % 400 = 0)

\* days of the common year before the month
DaysBeforeMonth(y, m) ==
    <<0, 31, 59, 90, 120, 151, 181, 212, 243, 273, 304, 334>>[m]
        + (IF m > 2 /\ IsLeap(y) THEN 1 ELSE 0)

\* days from 1970-01-01 to the date
EpochDay(y, mo, d) ==
    LET p == y - 1
    IN p * 365 + p \div 4 - p \div 100 + p \div 400 + DaysBeforeMonth(y, mo) + d
           - 719163

\* an instant to the second: its day and its second of the day
Instant(y, mo, d, h, mi, sec) ==
    [day |-> EpochDay(y, mo, d), sod |-> h * 3600 + mi * 60 + sec]

\* seconds from instant b to instant a
SecondsBetween(a, b) == (a.day - b.day) * 86400 + (a.sod - b.sod)

DigitValue(c) == CHOOSE d \in 0..9 : ToString(d) = c

IsDigit(c) == \E d \in 0..9 : ToString(d) = c

RECURSIVE Number(_)
Number(str) ==
    IF str = "" THEN 0
    ELSE 10 * Number(SubSeq(str, 1, Len(str) - 1))
            + DigitValue(SubSeq(str, Len(str), Len(str)))

\* the text has the shape YYYY-MM-DDTHH:MM:SSZ
IsIsoZ(str) ==
    /\ Len(str) = 20
    /\ \A i \in {1, 2, 3, 4, 6, 7, 9, 10, 12, 13, 15, 16, 18, 19} :
        IsDigit(SubSeq(str, i, i))
    /\ SubSeq(str, 5, 5) = "-" /\ SubSeq(str, 8, 8) = "-"
    /\ SubSeq(str, 11, 11) = "T"
    /\ SubSeq(str, 14, 14) = ":" /\ SubSeq(str, 17, 17) = ":"
    /\ SubSeq(str, 20, 20) = "Z"

InstantOfIso(str) ==
    Instant(Number(SubSeq(str, 1, 4)), Number(SubSeq(str, 6, 7)),
            Number(SubSeq(str, 9, 10)), Number(SubSeq(str, 12, 13)),
            Number(SubSeq(str, 15, 16)), Number(SubSeq(str, 18, 19)))

\* a calendar date and time of day that exist
IsValidIso(str) ==
    LET mo == Number(SubSeq(str, 6, 7))
        d == Number(SubSeq(str, 9, 10))
        y == Number(SubSeq(str, 1, 4))
    IN /\ mo \in 1..12
       /\ d >= 1
       /\ d <= (IF mo = 12 THEN 31 ELSE DaysBeforeMonth(y, mo + 1) - DaysBeforeMonth(y, mo))
       /\ Number(SubSeq(str, 12, 13)) <= 23
       /\ Number(SubSeq(str, 15, 16)) <= 59
       /\ Number(SubSeq(str, 18, 19)) <= 59

NowInstant ==
    Instant(now_utc.year, now_utc.month, now_utc.day,
            now_utc.hour, now_utc.minute, now_utc.second)

EndsWith(str, t) ==
    Len(str) >= Len(t) /\ SubSeq(str, Len(str) - Len(t) + 1, Len(str)) = t

WindowIsHalfOpenThirtyDaysToOneDay ==
    window # NoWindow =>
        /\ IsIsoZ(window.lower) /\ IsValidIso(window.lower)
        /\ IsIsoZ(window.upper) /\ IsValidIso(window.upper)
        /\ SecondsBetween(NowInstant, InstantOfIso(window.lower)) = 30 * 86400
        /\ SecondsBetween(NowInstant, InstantOfIso(window.upper)) = 24 * 3600
        /\ SecondsBetween(InstantOfIso(window.upper), InstantOfIso(window.lower)) > 0
        /\ SecondsBetween(InstantOfIso(window.upper), InstantOfIso(window.lower)) = 29 * 86400
        /\ EndsWith(window.search,
                    " AND created_at:>=" \o window.lower
                        \o " AND created_at:<" \o window.upper)

\* 30 days before 30 March of a leap year is 29 February
WindowIsHalfOpenThirtyDaysToOneDayWitness ==
    /\ now_utc = DateTime(2024, 3, 30, 10, 20, 30, 999999)
    /\ window.lower = "2024-02-29T10:20:30Z"
    /\ window.upper = "2024-03-29T10:20:30Z"


-----------------------------------------------------------------------------
(* C16: the chunker is greedy against MAX_SECTION_CHARS itself: it closes  *)
(* the current chunk before a line exactly when the body of the current    *)
(* chunk with that line appended after a newline would be longer than      *)
(* MAX_SECTION_CHARS; a line that leaves the body at or under the limit    *)
(* joins the current chunk.                                                *)

\* the positions after which the chunker cut the lines
CutsOf == CHOOSE cuts \in SUBSET (1..(Len(lines) - 1)) : parts = Cut(lines, cuts)

\* the first line of the chunk that is current when line i arrives
CurrentStart(i) ==
    LET before == {c \in CutsOf : c <= i - 2}
    IN IF before = {} THEN 1 ELSE 1 + CHOOSE c \in before : \A b \in before : b <= c

\* the body the current chunk would have with line i appended
BodyWithLine(i) == Join(SubSeq(lines, CurrentStart(i), i))

ChunkerGreedyUpToLimit ==
    pc = "chunks" =>
        \A i \in 2..Len(lines) :
            (i - 1) \in CutsOf <=> Len(BodyWithLine(i)) > MAX_SECTION_CHARS


-----------------------------------------------------------------------------
(* C17: a run goes through Idle, Fetching, Formatting, Publishing and Done *)
(* in that order: the phase never moves back or skips ahead, a query       *)
(* request is made only while fetching and before any publish call, a      *)
(* publish call only after the last page has been received, and Done is    *)
(* entered only when everything to publish has been published.             *)

\* the phase of the spec's state machine a position belongs to
Phase(p) ==
    CASE p = "import" -> "Idle"
      [] p = "fetching" -> "Fetching"
      [] p = "formatting" -> "Formatting"
      [] p \in {"publishing", "chunks"} -> "Publishing"
      [] p = "done" -> "Done"
      [] OTHER -> "Aborted"

PhaseSuccessors ==
    {<<"Idle", "Fetching">>, <<"Fetching", "Formatting">>,
     <<"Formatting", "Publishing">>, <<"Publishing", "Done">>}

LastPageReceived == pages # <<>> /\ ~pages[Len(pages)].hasNextPage

\* every chunk, or the one message of a report that is not chunked
AllPublished ==
    /\ Posts # <<>>
    /\ Posts[Len(Posts)].ok
    /\ parts # <<>> =>
          /\ Len(ChunkPosts) = Len(parts)
          /\ \A k \in 1..Len(parts) : ChunkPosts[k].ok /\ BodyOf(ChunkPosts[k]) = parts[k]

Calls(kind) == Len(EventsOf(log, kind))

PhasesInOrder ==
    [][/\ \/ Phase(pc') = Phase(pc)
          \/ <<Phase(pc), Phase(pc')>> \in PhaseSuccessors
          \/ Phase(pc') = "Aborted"
       /\ Calls("query")' > Calls("query") => Phase(pc) = "Fetching" /\ Calls("post") = 0
       /\ Calls("post")' > Calls("post") => Phase(pc) = "Publishing" /\ LastPageReceived
       /\ Phase(pc') = "Done" => AllPublished']_vars

PhasesInOrderWitness ==
    /\ pc = "done"
    /\ Len(pages) = 2
    /\ Len(parts) >= 2
    /\ AllPublished


-----------------------------------------------------------------------------
(* C18: build_lines gives, for no order, the fixed "no unfulfilled orders" *)
(* header and no line; for one or more orders, the fixed report header and *)
(* one line per order, the i-th line made from the i-th order.             *)

Formatted == header # ""

\* the line is the one of this order: its link, its name, its statuses
LineIsOf(line, r) ==
    LET opening == "|" \o r.name \o "> - "
        closing == " - Financial: '" \o r.financial
                       \o "' - Fulfillment: '" \o r.fulfillment \o "'"
        linkEnd == "/orders/" \o r.legacyId
        nameAt == Len(line) - Len(closing) - 25 - Len(opening)
    IN /\ SubSeq(line, 1, 11) = "* <https://"
       /\ EndsWith(line, closing)
       /\ nameAt >= Len(linkEnd)
       /\ SubSeq(line, nameAt + 1, nameAt + Len(opening)) = opening
       /\ SubSeq(line, nameAt - Len(linkEnd) + 1, nameAt) = linkEnd

BuildLinesOnePerOrder ==
    Formatted =>
        /\ rows = <<>> =>
              /\ header = ":white_check_mark: No unfulfilled orders in the 30d>24h window."
              /\ lines = <<>>
        /\ rows # <<>> =>
              /\ header = "*Unfulfilled orders > 24hrs (within last 30 days) - Please Review*"
              /\ Len(lines) = Len(rows)
              /\ \A i \in 1..Len(rows) : LineIsOf(lines[i], rows[i])

BuildLinesOnePerOrderWitness ==
    /\ Formatted
    /\ Len(rows) = 3
    /\ rows[1] # rows[2]
    /\ rows[2] # rows[3]


-----------------------------------------------------------------------------
(* C19: every chunk of the chunking loop holds at least one line; a chunk  *)
(* of two or more lines has a body strictly shorter than                   *)
(* MAX_SECTION_CHARS, so only a one-line chunk can reach the limit; a line *)
(* longer than the limit is a chunk by itself and is published unchanged.  *)

\* the number of lines of chunk k, for chunks cut after the positions of cuts
ChunkSize(cuts, k) ==
    LET b == <<0>> \o Sorted(cuts) \o <<Len(lines)>>
    IN b[k + 1] - b[k]

\* the chunk that holds line i
ChunkOfLine(cuts, i) == 1 + Cardinality({c \in cuts : c < i})

-----------------------------------------------------------------------------
(* C20: when every network call returns and the upstream API ends its      *)
(* pages, the run terminates, in Done or with an error, after at most      *)
(* (number of chunks + 1) publish attempts; the fetch loop goes on after   *)
(* every page that reports hasNextPage, without a cap and whether or not   *)
(* the cursor moved, and leaves only on hasNextPage = false or an error.   *)

Terminated == pc \in {"done", "failed"}

PageReceived == Len(pages') = Len(pages) + 1

RunTerminatesWithinChunksPlusOne ==
    /\ <>Terminated
    /\ [](Calls("post") <= Len(parts) + 1)
    /\ [][pc = "fetching" =>
            /\ (PageReceived /\ pages'[Len(pages')].hasNextPage) =>
                  pc' = "fetching" /\ after' = pages'[Len(pages')].endCursor
            /\ pc' = "formatting" =>
                  PageReceived /\ ~pages'[Len(pages')].hasNextPage
            /\ pc' = "failed" => ~PageReceived /\ ~LastEvent'.ok]_vars

\* the second request repeated the first (the cursor had not moved), and the
\* run ended after a refused single-shot attempt and one publish per chunk
RunTerminatesWithinChunksPlusOneWitness ==
    /\ pc = "done"
    /\ Len(pages) = 2
    /\ Queries[2].after = Queries[1].after
    /\ Len(parts) >= 2
    /\ Calls("post") = Len(parts) + 1


====
